---------------------------- MODULE Spec2Model ----------------------------
(***************************************************************************)
(* CurioLab backend (src/backend/main.py): the content cache, the audio    *)
(* cache, the progress table and the three request handlers that use them  *)
(* (generate_content, generate_content_audio, track_reading_time).         *)
(*                                                                         *)
(* Strings are sequences of one-character strings, so that lower(),        *)
(* strip(), replace(), split() and the glob prefix match are computed as   *)
(* Python computes them.  A handler is a process that takes one step per   *)
(* I/O operation (file read, file write, provider call, SQL statement);    *)
(* nothing in the source holds a lock across these.  Spec lets handlers    *)
(* overlap at these steps, as they do when more than one server process    *)
(* shares the cache directories and the SQLite file; SeqSpec runs the      *)
(* requests one after another, as the single event loop started by         *)
(* main.py:1063 does, whose handlers never yield.  RestartSpec is Spec     *)
(* started on the database file an earlier run left a row in.              *)
(***************************************************************************)
EXTENDS Naturals, Sequences, FiniteSets

VARIABLES
    serial,         \* requests arrive one at a time (SeqSpec)
    api_key,        \* client.api_key is set (main.py:41)
    content_cache,  \* CACHE_DIR: cache key -> [data, mtime]
    audio_cache,    \* AUDIO_CACHE_DIR: cache key -> [src, complete]
    user_progress,  \* rows of the user_progress table
    next_id,        \* AUTOINCREMENT counter of user_progress.id
    fs_now,         \* the clock as the cache files see it (st_mtime)
    db_now,         \* the clock as the database sees it (CURRENT_TIMESTAMP)
    proc,           \* the request handlers in flight
    started,        \* number of requests accepted so far
    faults,         \* number of failures the environment has injected so far
    generated,      \* history: every text the generation capability returned
    tts_log,        \* history: every input given to the synthesis capability
    last_record,    \* history: row key -> time of its last committed Record
    last_args,      \* history: row key -> <<time_spent, audio_played>> of that Record
    ever_stored,    \* history: the cache keys a content request stored an artifact under
    ka, kb, krel, kedits  \* the key-codec harness (KeySpec)

vars == <<serial, api_key, content_cache, audio_cache, user_progress, next_id, fs_now, db_now,
          proc, started, faults, generated, tts_log, last_record, last_args,
          ever_stored, ka, kb, krel, kedits>>

appVars == <<serial, api_key, content_cache, audio_cache, user_progress, next_id, fs_now, db_now,
             proc, started, faults, generated, tts_log, last_record, last_args, ever_stored>>

keyVars == <<ka, kb, krel, kedits>>

\* ------------------------------------------------------------------ bounds

\* Requests accepted in one run of the service.
MaxRequests == 2

\* Failures (I/O errors, provider errors, database errors) in one run.
MaxFaults == 2

\* Case and padding edits applied to a triple in the key-codec harness.
MaxEdits == 3

\* ----------------------------------------------------------------- strings

Uppers == <<"A","B","C","D","E","F","G","H","I","J","K","L","M",
            "N","O","P","Q","R","S","T","U","V","W","X","Y","Z">>

Lowers == <<"a","b","c","d","e","f","g","h","i","j","k","l","m",
            "n","o","p","q","r","s","t","u","v","w","x","y","z">>

\* str.lower() on one character
LowerChar(c) ==
    IF \E i \in 1..26 : Uppers[i] = c
    THEN Lowers[CHOOSE i \in 1..26 : Uppers[i] = c]
    ELSE c

\* str.upper() on one character
UpperChar(c) ==
    IF \E i \in 1..26 : Lowers[i] = c
    THEN Uppers[CHOOSE i \in 1..26 : Lowers[i] = c]
    ELSE c

\* str.lower()
Lower(s) == [i \in 1..Len(s) |-> LowerChar(s[i])]

\* str.capitalize(): first character upper-cased, the rest lower-cased
Capitalize(s) ==
    [i \in 1..Len(s) |-> IF i = 1 THEN UpperChar(s[i]) ELSE LowerChar(s[i])]

\* the characters str.strip() and str.split() treat as whitespace
IsSpace(c) == c \in {" ", "\t", "\n"}

\* str.strip() that forgets the right-hand side (a mutant of Strip)
LStripOnly(s) ==
    IF \A i \in 1..Len(s) : IsSpace(s[i])
    THEN << >>
    ELSE SubSeq(s, CHOOSE i \in 1..Len(s) :
                       /\ ~IsSpace(s[i])
                       /\ \A j \in 1..(i-1) : IsSpace(s[j]),
                Len(s))

\* str.strip(): drop leading and trailing whitespace
Strip(s) ==
    IF \A i \in 1..Len(s) : IsSpace(s[i])
    THEN << >>
    ELSE LET first == CHOOSE i \in 1..Len(s) :
                          /\ ~IsSpace(s[i])
                          /\ \A j \in 1..(i-1) : IsSpace(s[j])
             last  == CHOOSE i \in 1..Len(s) :
                          /\ ~IsSpace(s[i])
                          /\ \A j \in (i+1)..Len(s) : IsSpace(s[j])
         IN  SubSeq(s, first, last)

\* str.replace(' ', '_')
ReplaceSpaces(s) == [i \in 1..Len(s) |-> IF s[i] = " " THEN "_" ELSE s[i]]

\* needle in haystack (Python's substring test)
Contains(haystack, needle) ==
    \E i \in 1..(Len(haystack) - Len(needle) + 1) :
        SubSeq(haystack, i, i + Len(needle) - 1) = needle

\* str.startswith
StartsWith(s, prefix) ==
    /\ Len(prefix) <= Len(s)
    /\ SubSeq(s, 1, Len(prefix)) = prefix

\* len(content.split()): the number of whitespace-delimited tokens
WordCount(s) ==
    Cardinality({i \in 1..Len(s) :
                    /\ ~IsSpace(s[i])
                    /\ (i = 1 \/ IsSpace(s[i-1]))})

\* ---------------------------------------------------------- cache key codec

\* hashlib.md5(x).hexdigest()[:8]: a digest, taken to be free of collisions
md5_8(normalized) == <<"md5", normalized>>

\* the f-string of get_cache_key before hashing
Normalized(topic, dimension, skill_level) ==
    Strip(Lower(topic)) \o <<"-">> \o Strip(Lower(dimension)) \o <<"-">>
        \o Strip(Lower(skill_level))

\* get_cache_key without the trailing strip (a mutant of get_cache_key)
get_cache_key_lstrip(topic, dimension, skill_level) ==
    LET normalized == LStripOnly(Lower(topic)) \o <<"-">>
                        \o LStripOnly(Lower(dimension)) \o <<"-">>
                        \o LStripOnly(Lower(skill_level))
    IN  [slug |-> ReplaceSpaces(normalized), hash |-> md5_8(normalized)]

\* get_cache_key: the file stem "<slug>-<hash>", kept as its two parts
get_cache_key(topic, dimension, skill_level) ==
    LET normalized == Normalized(topic, dimension, skill_level)
    IN  [slug |-> ReplaceSpaces(normalized), hash |-> md5_8(normalized)]

\* get_audio_cache_key
get_audio_cache_key(topic, dimension, skill_level) ==
    get_cache_key(topic, dimension, skill_level)

\* ------------------------------------------------------------- safety gate

\* the blocklist of is_topic_appropriate, in the order of the source
inappropriate_keywords == <<
    <<"g","u","n">>,
    <<"g","u","n","s">>,
    <<"w","e","a","p","o","n">>,
    <<"w","e","a","p","o","n","s">>,
    <<"b","o","m","b">>,
    <<"b","o","m","b","s">>,
    <<"w","a","r">>,
    <<"w","a","r","s">>,
    <<"k","i","l","l">>,
    <<"k","i","l","l","i","n","g">>,
    <<"m","u","r","d","e","r">>,
    <<"d","e","a","t","h">>,
    <<"s","u","i","c","i","d","e">>,
    <<"v","i","o","l","e","n","c","e">>,
    <<"v","i","o","l","e","n","t">>,
    <<"f","i","g","h","t">>,
    <<"f","i","g","h","t","i","n","g">>,
    <<"a","t","t","a","c","k">>,
    <<"a","t","t","a","c","k","s">>,
    <<"t","e","r","r","o","r","i","s","t">>,
    <<"t","e","r","r","o","r","i","s","m">>,
    <<"s","h","o","o","t","i","n","g">>,
    <<"s","e","x">>,
    <<"s","e","x","u","a","l">>,
    <<"p","o","r","n">>,
    <<"n","u","d","e">>,
    <<"n","a","k","e","d">>,
    <<"a","d","u","l","t">>,
    <<"m","a","t","u","r","e">>,
    <<"i","n","t","i","m","a","t","e">>,
    <<"r","o","m","a","n","t","i","c">>,
    <<"d","r","u","g">>,
    <<"d","r","u","g","s">>,
    <<"a","l","c","o","h","o","l">>,
    <<"b","e","e","r">>,
    <<"w","i","n","e">>,
    <<"c","o","c","a","i","n","e">>,
    <<"m","a","r","i","j","u","a","n","a">>,
    <<"s","m","o","k","i","n","g">>,
    <<"c","i","g","a","r","e","t","t","e">>,
    <<"s","c","a","r","y">>,
    <<"h","o","r","r","o","r">>,
    <<"g","h","o","s","t">>,
    <<"d","e","m","o","n">>,
    <<"e","v","i","l">>,
    <<"b","l","o","o","d">>,
    <<"g","o","r","e">>,
    <<"d","i","s","t","u","r","b","i","n","g">>
    >>

\* is_topic_appropriate: no blocklisted keyword is a substring of the
\* lower-cased, stripped topic
\* is_topic_appropriate without its lower() (a mutant)
is_topic_appropriate_cased(topic) ==
    LET topic_lower == Strip(topic)
    IN  \A k \in 1..Len(inappropriate_keywords) :
            ~Contains(topic_lower, inappropriate_keywords[k])

\* lines 385-408
is_topic_appropriate(topic) ==
    LET topic_lower == Strip(Lower(topic))
    IN  \A k \in 1..Len(inappropriate_keywords) :
            ~Contains(topic_lower, inappropriate_keywords[k])

\* ------------------------------------------------------------ speech adapter

RECURSIVE SubBold(_, _)
\* re.sub(r'\*\*(.+?)\*\*', r'\1', s), scanning from position i
SubBold(s, i) ==
    IF i > Len(s) THEN << >>
    ELSE LET closes == {j \in (i+3)..(Len(s)-1) :
                           /\ s[j] = "*" /\ s[j+1] = "*"
                           /\ \A k \in (i+2)..(j-1) : s[k] # "\n"}
             opens  == /\ i + 1 <= Len(s)
                       /\ s[i] = "*" /\ s[i+1] = "*"
                       /\ closes # {}
         IN  IF opens
             THEN LET j == CHOOSE x \in closes : \A y \in closes : x <= y
                  IN  SubSeq(s, i+2, j-1) \o SubBold(s, j+2)
             ELSE <<s[i]>> \o SubBold(s, i+1)

RECURSIVE SubHeading(_, _)
\* re.sub(r'^\*\*.*?\*\*', '', s, flags=re.MULTILINE), scanning from position i
SubHeading(s, i) ==
    IF i > Len(s) THEN << >>
    ELSE LET closes == {j \in (i+2)..(Len(s)-1) :
                           /\ s[j] = "*" /\ s[j+1] = "*"
                           /\ \A k \in (i+2)..(j-1) : s[k] # "\n"}
             opens  == /\ (i = 1 \/ s[i-1] = "\n")
                       /\ i + 1 <= Len(s)
                       /\ s[i] = "*" /\ s[i+1] = "*"
                       /\ closes # {}
         IN  IF opens
             THEN LET j == CHOOSE x \in closes : \A y \in closes : x <= y
                  IN  SubHeading(s, j+2)
             ELSE <<s[i]>> \o SubHeading(s, i+1)

RECURSIVE SubBreaks(_, _)
\* re.sub(r'\n\n', '. ', s) then re.sub(r'\n', ' ', s), scanning from position i
SubBreaks(s, i) ==
    IF i > Len(s) THEN << >>
    ELSE IF s[i] = "\n" /\ i + 1 <= Len(s) /\ s[i+1] = "\n"
         THEN <<".", " ">> \o SubBreaks(s, i+2)
         ELSE <<IF s[i] = "\n" THEN " " ELSE s[i]>> \o SubBreaks(s, i+1)

RECURSIVE SubSpaces(_, _)
\* re.sub(r'\s+', ' ', s), scanning from position i
SubSpaces(s, i) ==
    IF i > Len(s) THEN << >>
    ELSE IF IsSpace(s[i])
         THEN IF i > 1 /\ IsSpace(s[i-1])
              THEN SubSpaces(s, i+1)
              ELSE <<" ">> \o SubSpaces(s, i+1)
         ELSE <<s[i]>> \o SubSpaces(s, i+1)

\* clean_text_for_tts
clean_text_for_tts(content) ==
    Strip(SubSpaces(SubBreaks(SubHeading(SubBold(content, 1), 1), 1), 1))

\* -------------------------------------------------------- generated content

\* textstat.flesch_reading_ease(content): a score fixed by the text
flesch_reading_ease(content) == <<"fre", content>>

\* what the text-generation capability may answer (response...message.content)
RawTexts == { <<"*","*","x","*","*","\n","\n","y"," ">>,
              <<"x"," ","y"," ","z">> }

\* the cache_data of cache_content
CacheData(topic, dimension, skill_level, content, word_count, readability_score) ==
    [topic |-> topic, dimension |-> dimension, skill_level |-> skill_level,
     content |-> content, word_count |-> word_count,
     readability_score |-> readability_score]

\* --------------------------------------------------------------- the values

None == [kind |-> "None"]

\* a cache file whose bytes do not parse as JSON
Corrupt == [kind |-> "corrupt"]

\* f with key k set to v (a file written, a row keyed)
Put(f, k, v) ==
    [x \in DOMAIN f \cup {k} |-> IF x = k THEN v ELSE f[x]]

Max(a, b) == IF a >= b THEN a ELSE b

Beginner == <<"B","e","g","i","n","n","e","r">>

Explorer == <<"E","x","p","l","o","r","e","r">>

Expert == <<"E","x","p","e","r","t">>

\* the membership list of generate_content
SkillLevels == {Beginner, Explorer, Expert}

\* the handler slots: two requests can be in flight at once
Procs == {1, 2}

ab == <<"a","b">>

\* "ab" in another case, with trailing whitespace: the same cache key
ab_variant == <<"A","b"," ">>

d == <<"d">>

\* a topic that holds a blocked keyword, in another case and padded
gun == <<" ", "G", "u", "n">>

\* a topic of one character once trimmed
short == <<" ", "a", " ">>

\* a topic of two words: its cache file is named with "_" for the space
two_words == <<"a", " ", "b">>

\* user ids; NoUser stands for current_user = None
Users == {1}

NoUser == 0

\* the content requests the service is driven with:
\* <<topic, dimension, skill_level, user>>
ContentInputs ==
    { <<ab, d, Beginner, 1>>, <<ab_variant, d, Beginner, 1>>,
      <<ab, d, Explorer, 1>>, <<ab, d, Beginner, NoUser>>,
      <<gun, d, Beginner, 1>>, <<short, d, Beginner, 1>>,
      <<ab, d, Lower(Beginner), 1>>, <<two_words, d, Explorer, 1>> }

\* the audio requests: <<topic, dimension, grade_level, user>>
AudioInputs == { <<ab, d, 3, 1>>, <<ab, d, 4, 1>>, <<two_words, d, 3, 1>> }

\* the time-tracking requests:
\* <<topic, dimension, skill_level, user, time_spent>>
TrackInputs == { <<ab, d, Beginner, 1, 5>>, <<ab, d, Beginner, 1, 10>> }

\* the HTTP answer of a handler
Response(status, detail, body) ==
    [status |-> status, detail |-> detail, body |-> body]

\* a handler that is not running
Idle ==
    [pc |-> "idle", op |-> "none", topic |-> << >>, dimension |-> << >>,
     skill_level |-> << >>, skill_level_caps |-> << >>, user |-> NoUser,
     time_spent |-> 0, audio_played |-> "None",
     rec_skill |-> << >>, cached |-> None, content |-> << >>,
     existing |-> None, cached_audio |-> FALSE, ret |-> "idle",
     resp |-> None,
     \* history of this request
     start |-> "none", hit |-> FALSE, snap |-> None, gens |-> 0,
     wrote |-> FALSE, tts |-> << >>, rec |-> "none",
     looked |-> FALSE, via |-> "none", same |-> FALSE,
     had_text |-> FALSE]

\* ------------------------------------------------------------- cache store

\* what a request finds under its key when it arrives
FileState(files, k) ==
    IF k \notin DOMAIN files THEN "absent"
    ELSE IF files[k].data = Corrupt THEN "corrupt" ELSE "artifact"

\* get_cached_content that treats every lookup as a miss (a mutant)
get_cached_content_miss(files, topic, dimension, skill_level, io_ok) ==
    None

\* get_cached_content: the parsed file, or None when the file is absent,
\* cannot be read (io_ok = FALSE) or does not parse
get_cached_content(files, topic, dimension, skill_level, io_ok) ==
    LET cache_key == get_cache_key(topic, dimension, skill_level)
    IN  IF /\ cache_key \in DOMAIN files
           /\ io_ok
           /\ files[cache_key].data # Corrupt
        THEN files[cache_key].data
        ELSE None

\* cache_content: the cache directory after the write; the open may fail
\* (nothing changes) or the dump may fail after the file was truncated
cache_content(files, topic, dimension, skill_level, content, word_count, readability_score, ts, outcome) ==
    LET cache_key == get_cache_key(topic, dimension, skill_level)
        cache_data == CacheData(topic, dimension, skill_level, content,
                                word_count, readability_score)
    IN  CASE outcome = "ok" ->
                Put(files, cache_key, [data |-> cache_data, mtime |-> ts])
          [] outcome = "dump_failed" ->
                Put(files, cache_key, [data |-> Corrupt, mtime |-> ts])
          [] OTHER -> files

\* the file name "<slug>-<hash>.json" up to the start of the hash
FilePrefix(k) == k.slug \o <<"-">>

\* glob.glob(CACHE_DIR / f"{topic.lower().strip()}-{dimension.lower().strip()}-*.json")
matching_files(files, topic, dimension) ==
    LET pattern == Strip(Lower(topic)) \o <<"-">>
                     \o Strip(Lower(dimension)) \o <<"-">>
    IN  {k \in DOMAIN files : StartsWith(FilePrefix(k), pattern)}

\* max(matching_files, key=lambda f: Path(f).stat().st_mtime)
latest_file(files, matching) ==
    CHOOSE k \in matching : \A x \in matching : files[x].mtime <= files[k].mtime

\* get_unsplash_images: a static table keyed by the topic
get_unsplash_images(topic) == <<"images", Strip(Lower(topic))>>

\* ---------------------------------------------------------- progress table

\* the UNIQUE(user_id, topic, dimension, skill_level) key of a row
RowKey(row) == <<row.user_id, row.topic, row.dimension, row.skill_level>>

\* the row the SELECT of record_user_progress fetches, or None
SelectRow(rows, user_id, topic, dimension, skill_level) ==
    IF \E row \in rows : RowKey(row) = <<user_id, topic, dimension, skill_level>>
    THEN CHOOSE row \in rows :
             RowKey(row) = <<user_id, topic, dimension, skill_level>>
    ELSE None

\* an UPDATE that stores the incoming values as they are (a mutant)
UpdateRowOverwrite(row, existing, time_spent, audio_played, ts) ==
    [row EXCEPT !.time_spent = time_spent,
                !.audio_played = (audio_played = "True"),
                !.completed_at = ts]

\* an UPDATE that leaves completed_at alone when nothing else changes
\* (a mutant)
UpdateRowLazy(row, existing, time_spent, audio_played, ts) ==
    LET new_time_spent == Max(existing.time_spent, time_spent)
        new_audio_played ==
            IF audio_played = "None" THEN existing.audio_played
            ELSE existing.audio_played \/ (audio_played = "True")
    IN  [row EXCEPT !.time_spent = new_time_spent,
                    !.audio_played = new_audio_played,
                    !.completed_at =
                        IF /\ new_time_spent = row.time_spent
                           /\ new_audio_played = row.audio_played
                        THEN row.completed_at ELSE ts]

\* an UPDATE that adds the incoming time to the stored one (a mutant)
UpdateRowAdd(row, existing, time_spent, audio_played, ts) ==
    [row EXCEPT !.time_spent = existing.time_spent + time_spent,
                !.audio_played =
                    IF audio_played = "None" THEN existing.audio_played
                    ELSE existing.audio_played \/ (audio_played = "True"),
                !.completed_at = ts]

\* the UPDATE of record_user_progress applied to the row with id existing.id
UpdateRow(row, existing, time_spent, audio_played, ts) ==
    LET new_time_spent == Max(existing.time_spent, time_spent)
        new_audio_played ==
            IF audio_played = "None" THEN existing.audio_played
            ELSE existing.audio_played \/ (audio_played = "True")
    IN  [row EXCEPT !.time_spent = new_time_spent,
                    !.audio_played = new_audio_played,
                    !.completed_at = ts]

\* an INSERT that leaves audio_played to the column default (a mutant)
InsertRowDefault(id, user_id, topic, dimension, skill_level, time_spent, audio_played, ts) ==
    [id |-> id, user_id |-> user_id, topic |-> topic, dimension |-> dimension,
     skill_level |-> skill_level, completed_at |-> ts,
     time_spent |-> time_spent, audio_played |-> FALSE]

\* the row the INSERT of record_user_progress creates
InsertRow(id, user_id, topic, dimension, skill_level, time_spent, audio_played, ts) ==
    [id |-> id, user_id |-> user_id, topic |-> topic, dimension |-> dimension,
     skill_level |-> skill_level, completed_at |-> ts,
     time_spent |-> time_spent,
     audio_played |-> IF audio_played = "None" THEN FALSE
                      ELSE audio_played = "True"]

\* ---------------------------------------------------------- generate_content

\* a handler slot that holds no request in flight
Free(p) == proc[p].pc \in {"idle", "done"}

\* a new request is accepted and goes to the first free handler slot; when
\* requests arrive one at a time, no other request is in flight
Dispatch(p) ==
    /\ Free(p)
    /\ \A q \in Procs : q < p => ~Free(q)
    /\ started < MaxRequests
    /\ serial => \A q \in Procs : Free(q)

\* the environment may inject one more failure
MayFail == faults < MaxFaults

\* the handler returns its response; its locals are gone
Return(r, resp) ==
    [r EXCEPT !.pc = "done", !.resp = resp, !.existing = None,
              !.ret = "idle", !.rec_skill = << >>, !.cached_audio = FALSE,
              !.content = << >>]

\* generate_content without its topic and skill-level checks (a mutant)
ValidateKeyOnly(topic, skill_level) ==
    IF ~api_key
    THEN Response(500, "OpenAI API key not configured", None)
    ELSE None

\* the checks of generate_content before its try block: the error response
\* of a rejected request, None for an accepted one
Validate(topic, skill_level) ==
    IF ~api_key
    THEN Response(500, "OpenAI API key not configured", None)
    ELSE IF Len(topic) = 0 \/ Len(Strip(topic)) < 2
    THEN Response(400, "Topic must be at least 2 characters long", None)
    ELSE IF ~is_topic_appropriate(topic)
    THEN Response(400, "Please choose an educational topic appropriate for young learners", None)
    ELSE IF skill_level \notin SkillLevels
    THEN Response(400, "Only Beginner, Explorer, and Expert skill levels are supported", None)
    ELSE None

\* the ContentResponse fields
ContentBody(topic, dimension, skill_level, content, readability_score, word_count, images) ==
    [topic |-> topic, dimension |-> dimension, skill_level |-> skill_level,
     content |-> content, readability_score |-> readability_score,
     word_count |-> word_count, images |-> images]

\* a hit answered with the request's own fields and no stored text (a mutant)
HitResponseEmpty(cached_content, topic, dimension) ==
    Response(200, "",
        ContentBody(topic, dimension, cached_content.skill_level, << >>,
                    flesch_reading_ease(<< >>), 0, get_unsplash_images(topic)))

\* the response of generate_content on a cache hit
HitResponse(cached_content, topic, dimension) ==
    Response(200, "",
        ContentBody(cached_content.topic, cached_content.dimension,
                    cached_content.skill_level, cached_content.content,
                    cached_content.readability_score,
                    cached_content.word_count, get_unsplash_images(topic)))

\* the end of generate_content: record the view when a user is logged in
AfterContent(r) ==
    IF r.user # NoUser
    THEN [r EXCEPT !.pc = "rec_select", !.ret = "content",
                   !.rec_skill = r.skill_level, !.time_spent = 0,
                   !.audio_played = "False"]
    ELSE Return(r, r.resp)

\* POST /generate-content arrives: validation
GenerateContent(p) ==
    /\ Dispatch(p)
    /\ \E req \in ContentInputs :
         LET topic == req[1]
             dimension == req[2]
             skill_level == req[3]
             user == req[4]
             rejected == Validate(topic, skill_level)
             k == get_cache_key(topic, dimension, skill_level)
             r == [Idle EXCEPT !.op = "content", !.topic = topic,
                               !.dimension = dimension,
                               !.skill_level = skill_level, !.user = user,
                               !.start = FileState(content_cache, k)]
         IN  proc' = [proc EXCEPT ![p] =
                        IF rejected # None
                        THEN Return(r, rejected)
                        ELSE [r EXCEPT !.pc = "gc_lookup"]]
    /\ started' = started + 1
    /\ UNCHANGED <<keyVars, serial, faults, api_key, content_cache, audio_cache, user_progress,
                   next_id, fs_now, db_now, generated, tts_log, last_record, last_args, ever_stored>>

\* a cache read whose failure ends the request with an error (a mutant)
ContentLookupRaise(p) ==
    /\ proc[p].pc = "gc_lookup"
    /\ \E io_ok \in BOOLEAN :
         LET r == proc[p]
             k == get_cache_key(r.topic, r.dimension, r.skill_level)
             cached_content == get_cached_content(content_cache, r.topic,
                                   r.dimension, r.skill_level, io_ok)
         IN  /\ io_ok \/ (k \in DOMAIN content_cache /\ MayFail)
             /\ faults' = IF io_ok THEN faults ELSE faults + 1
             /\ proc' = [proc EXCEPT ![p] =
                    IF cached_content # None
                    THEN AfterContent(
                           [r EXCEPT !.cached = cached_content, !.hit = TRUE,
                                     !.looked = TRUE,
                                     !.snap = content_cache[k].data,
                                     !.resp = HitResponse(cached_content,
                                                 r.topic, r.dimension)])
                    ELSE IF k \in DOMAIN content_cache
                    THEN Return([r EXCEPT !.looked = TRUE],
                                Response(500, "Content generation failed", None))
                    ELSE [r EXCEPT !.pc = "gc_generate", !.looked = TRUE]]
    /\ UNCHANGED <<keyVars, serial, api_key, content_cache, audio_cache, user_progress,
                   next_id, fs_now, db_now, started, generated, tts_log, last_record, last_args, ever_stored>>

\* generate_content reads the cache
ContentLookup(p) ==
    /\ proc[p].pc = "gc_lookup"
    /\ \E io_ok \in BOOLEAN :
         LET r == proc[p]
             k == get_cache_key(r.topic, r.dimension, r.skill_level)
             cached_content == get_cached_content(content_cache, r.topic,
                                   r.dimension, r.skill_level, io_ok)
         IN  /\ io_ok \/ (k \in DOMAIN content_cache /\ MayFail)
             /\ faults' = IF io_ok THEN faults ELSE faults + 1
             /\ proc' = [proc EXCEPT ![p] =
                    IF cached_content # None
                    THEN AfterContent(
                           [r EXCEPT !.cached = cached_content, !.hit = TRUE,
                                     !.looked = TRUE,
                                     !.snap = content_cache[k].data,
                                     !.resp = HitResponse(cached_content,
                                                 r.topic, r.dimension)])
                    ELSE [r EXCEPT !.pc = "gc_generate", !.looked = TRUE]]
    /\ UNCHANGED <<keyVars, serial, api_key, content_cache, audio_cache, user_progress,
                   next_id, fs_now, db_now, started, generated, tts_log, last_record, last_args, ever_stored>>

\* generate_topic_content: the provider answers
ContentGenerated(p) ==
    /\ proc[p].pc = "gc_generate"
    /\ \E raw \in RawTexts :
         LET content == Strip(raw)
         IN  /\ proc' = [proc EXCEPT ![p].pc = "gc_cache",
                                     ![p].content = content,
                                     ![p].gens = @ + 1]
             /\ generated' = generated \cup {content}
    /\ UNCHANGED <<keyVars, serial, faults, api_key, content_cache, audio_cache, user_progress,
                   next_id, fs_now, db_now, started, tts_log, last_record, last_args, ever_stored>>

\* a failed provider call answered with a placeholder text that is cached and
\* recorded like a generated one (a mutant)
ContentGenerationSubstituted(p) ==
    /\ proc[p].pc = "gc_generate"
    /\ MayFail
    /\ faults' = faults + 1
    /\ LET r == proc[p]
           content == <<"x">>
           body == ContentBody(r.topic, r.dimension, r.skill_level, content,
                               flesch_reading_ease(content), 1,
                               get_unsplash_images(r.topic))
       IN  /\ content_cache' = cache_content(content_cache, r.topic,
                                   r.dimension, r.skill_level, content, 1,
                                   flesch_reading_ease(content), fs_now, "ok")
           /\ proc' = [proc EXCEPT ![p] =
                          Return([r EXCEPT !.gens = @ + 1, !.wrote = TRUE],
                                 Response(200, "", body))]
           /\ ever_stored' = ever_stored \cup {get_cache_key(r.topic, r.dimension,
                                                   r.skill_level)}
    /\ fs_now' = fs_now + 1
    /\ UNCHANGED <<keyVars, serial, api_key, audio_cache, user_progress,
                   next_id, db_now, started, generated, tts_log, last_record, last_args>>

\* generate_topic_content: the provider call raises; the handler's except
\* turns it into a 500
ContentGenerationFailed(p) ==
    /\ proc[p].pc = "gc_generate"
    /\ MayFail
    /\ faults' = faults + 1
    /\ proc' = [proc EXCEPT ![p] =
                    Return([proc[p] EXCEPT !.gens = @ + 1],
                           Response(500, "Content generation failed", None))]
    /\ UNCHANGED <<keyVars, serial, api_key, content_cache, audio_cache, user_progress,
                   next_id, fs_now, db_now, started, generated, tts_log, last_record, last_args, ever_stored>>

\* generate_content scores the text, writes it to the cache and builds the
\* response
ContentCache(p) ==
    /\ proc[p].pc = "gc_cache"
    /\ \E outcome \in {"ok", "open_failed", "dump_failed"} :
         LET r == proc[p]
             fk_score == flesch_reading_ease(r.content)
             word_count == WordCount(r.content)
             body == ContentBody(r.topic, r.dimension, r.skill_level,
                                 r.content, fk_score, word_count,
                                 get_unsplash_images(r.topic))
         IN  /\ outcome = "ok" \/ MayFail
             /\ faults' = IF outcome = "ok" THEN faults ELSE faults + 1
             /\ content_cache' = cache_content(content_cache, r.topic,
                                     r.dimension, r.skill_level, r.content,
                                     word_count, fk_score, fs_now, outcome)
             /\ fs_now' = IF outcome = "open_failed" THEN fs_now
                                                    ELSE fs_now + 1
             /\ proc' = [proc EXCEPT ![p] =
                            AfterContent([r EXCEPT
                                !.resp = Response(200, "", body),
                                !.wrote = (outcome = "ok")])]
             /\ ever_stored' = IF outcome = "ok"
                          THEN ever_stored \cup {get_cache_key(r.topic,
                                                r.dimension, r.skill_level)}
                          ELSE ever_stored
    /\ UNCHANGED <<keyVars, serial, api_key, audio_cache, user_progress, next_id,
                   db_now, started, generated, tts_log, last_record, last_args>>

\* ------------------------------------------------------ record_user_progress

\* a record_user_progress whose storage failure reaches the caller as an
\* error response (a mutant)
ResumePropagate(r) ==
    IF r.rec = "failed"
    THEN Return(r, Response(500, "Failed to record progress", None))
    ELSE CASE r.ret = "content" -> Return(r, r.resp)
           [] r.ret = "track" ->
                 Return(r, Response(200, "Time tracked successfully",
                                    [time_spent |-> r.time_spent]))
           [] OTHER -> [r EXCEPT !.pc = "ga_after", !.existing = None]

\* record_user_progress returns to the handler that called it
Resume(r) ==
    CASE r.ret = "content" -> Return(r, r.resp)
      [] r.ret = "track" ->
            Return(r, Response(200, "Time tracked successfully",
                               [time_spent |-> r.time_spent]))
      [] OTHER -> [r EXCEPT !.pc = "ga_after", !.existing = None]

\* the SELECT of record_user_progress
RecordSelect(p) ==
    /\ proc[p].pc = "rec_select"
    /\ LET r == proc[p]
       IN  proc' = [proc EXCEPT ![p] =
                      [r EXCEPT !.pc = "rec_write",
                                !.existing = SelectRow(user_progress, r.user,
                                    r.topic, r.dimension, r.rec_skill)]]
    /\ UNCHANGED <<keyVars, serial, faults, api_key, content_cache, audio_cache, user_progress,
                   next_id, fs_now, db_now, started, generated, tts_log, last_record, last_args, ever_stored>>

\* the UPDATE or INSERT on a table without its UNIQUE constraint (a mutant)
RecordWriteNoUnique(p) ==
    /\ proc[p].pc = "rec_write"
    /\ LET r == proc[p]
           key == <<r.user, r.topic, r.dimension, r.rec_skill>>
       IN  /\ user_progress' =
                 IF r.existing # None
                 THEN {IF row.id = r.existing.id
                       THEN UpdateRow(row, r.existing, r.time_spent,
                                      r.audio_played, db_now)
                       ELSE row : row \in user_progress}
                 ELSE user_progress \cup
                        {InsertRow(next_id, r.user, r.topic, r.dimension,
                                   r.rec_skill, r.time_spent, r.audio_played,
                                   db_now)}
           /\ last_record' = Put(last_record, key, db_now)
           /\ last_args' = Put(last_args, key,
                               <<r.time_spent, r.audio_played>>)
           /\ db_now' = db_now + 1
           /\ next_id' = IF r.existing # None THEN next_id ELSE next_id + 1
           /\ proc' = [proc EXCEPT ![p] =
                          Resume([r EXCEPT !.rec = "committed"])]
    /\ UNCHANGED <<keyVars, serial, faults, api_key, content_cache, audio_cache, fs_now,
                   started, generated, tts_log, ever_stored>>

\* the UPDATE or INSERT of record_user_progress, committed
RecordWrite(p) ==
    /\ proc[p].pc = "rec_write"
    /\ LET r == proc[p]
           key == <<r.user, r.topic, r.dimension, r.rec_skill>>
       IN  IF r.existing # None
           THEN /\ user_progress' =
                     {IF row.id = r.existing.id
                      THEN UpdateRow(row, r.existing, r.time_spent,
                                     r.audio_played, db_now)
                      ELSE row : row \in user_progress}
                /\ last_record' = Put(last_record, key, db_now)
                /\ last_args' = Put(last_args, key,
                                    <<r.time_spent, r.audio_played>>)
                /\ db_now' = db_now + 1
                /\ UNCHANGED next_id
           ELSE IF \E row \in user_progress : RowKey(row) = key
           THEN \* the UNIQUE constraint rejects the INSERT; the error is
                \* swallowed
                UNCHANGED <<user_progress, last_record, last_args, db_now,
                            next_id>>
           ELSE /\ user_progress' = user_progress \cup
                     {InsertRow(next_id, r.user, r.topic, r.dimension,
                                r.rec_skill, r.time_spent, r.audio_played,
                                db_now)}
                /\ last_record' = Put(last_record, key, db_now)
                /\ last_args' = Put(last_args, key,
                                    <<r.time_spent, r.audio_played>>)
                /\ db_now' = db_now + 1
                /\ next_id' = next_id + 1
    /\ LET r == proc[p]
           key == <<r.user, r.topic, r.dimension, r.rec_skill>>
           rejected == /\ r.existing = None
                       /\ \E row \in user_progress : RowKey(row) = key
           repeat == /\ ~rejected
                     /\ key \in DOMAIN last_args
                     /\ last_args[key] = <<r.time_spent, r.audio_played>>
       IN  proc' = [proc EXCEPT ![p] =
                      Resume([r EXCEPT !.rec = IF rejected THEN "conflict"
                                               ELSE "committed",
                                       !.same = repeat])]
    /\ UNCHANGED <<keyVars, serial, faults, api_key, content_cache, audio_cache, fs_now,
                   started, generated, tts_log, ever_stored>>

\* sqlite3 raises inside record_user_progress (connect, execute or commit):
\* nothing is committed and the exception is swallowed
RecordFailed(p) ==
    /\ proc[p].pc \in {"rec_select", "rec_write"}
    /\ MayFail
    /\ faults' = faults + 1
    /\ proc' = [proc EXCEPT ![p] = Resume([proc[p] EXCEPT !.rec = "failed"])]
    /\ UNCHANGED <<keyVars, serial, api_key, content_cache, audio_cache, user_progress,
                   next_id, fs_now, db_now, started, generated, tts_log, last_record, last_args, ever_stored>>

\* POST /track-time: record_user_progress(..., time_spent, audio_played=None)
TrackReadingTime(p) ==
    /\ Dispatch(p)
    /\ \E req \in TrackInputs :
         proc' = [proc EXCEPT ![p] =
                    [Idle EXCEPT !.op = "track", !.topic = req[1],
                                 !.dimension = req[2],
                                 !.skill_level = req[3],
                                 !.rec_skill = req[3], !.user = req[4],
                                 !.time_spent = req[5],
                                 !.audio_played = "None",
                                 !.pc = "rec_select", !.ret = "track"]]
    /\ started' = started + 1
    /\ UNCHANGED <<keyVars, serial, faults, api_key, content_cache, audio_cache, user_progress,
                   next_id, fs_now, db_now, generated, tts_log, last_record, last_args, ever_stored>>

\* --------------------------------------------------- generate_content_audio

beginner == Lower(Beginner)

explorer == Lower(Explorer)

expert == Lower(Expert)

\* the grade_level to skill_level conversion of generate_content_audio
SkillOfGrade(grade_level) ==
    IF grade_level = 3 THEN beginner
    ELSE IF grade_level = 4 THEN explorer ELSE expert

\* str(e) of an HTTPException
StrOfHTTPException(status, detail) == <<status, ": ", detail>>

\* the except block of generate_content_audio: whatever was raised inside the
\* try block, an HTTPException included, leaves as a 500 carrying str(e)
AudioExcept(status, detail) ==
    Response(500, StrOfHTTPException(status, detail), None)

\* the raise of generate_content_audio when no text was found, as it leaves
\* the handler (the detail is written without its emoji)
ContentNotFound ==
    AudioExcept(404, "Please generate content first by clicking 'Start Learning!' button.")

\* the except block of generate_audio, as it leaves the handler
AudioGenerationFailed ==
    AudioExcept(500, "Audio generation failed")

\* FileResponse(path): the bytes of the file when the response is sent
FileResponse(files, k) == Response(200, "", files[k])

\* a handler that goes on to synthesis without any text (a mutant)
AfterResolveUnchecked(r, cached_content) ==
    [r EXCEPT !.pc = "ga_audio",
              !.cached = IF cached_content # None THEN cached_content
                         ELSE [content |-> r.topic \o <<" ">> \o r.dimension]]

\* lines 844-848: without text the request ends, with text it goes on
AfterResolve(r, cached_content) ==
    IF cached_content = None
    THEN Return(r, ContentNotFound)
    ELSE [r EXCEPT !.pc = "ga_audio", !.cached = cached_content,
                   !.via = "any"]

\* POST /generate-audio arrives
GenerateContentAudio(p) ==
    /\ Dispatch(p)
    /\ \E req \in AudioInputs :
         LET skill_level == SkillOfGrade(req[3])
         IN  proc' = [proc EXCEPT ![p] =
                        [Idle EXCEPT !.op = "audio", !.topic = req[1],
                                     !.dimension = req[2],
                                     !.skill_level = skill_level,
                                     !.skill_level_caps =
                                         Capitalize(skill_level),
                                     !.user = req[4], !.pc = "ga_lookup1",
                                     !.had_text =
                                         get_cache_key(req[1], req[2],
                                             Capitalize(skill_level))
                                           \in ever_stored,
                                     !.start =
                                         IF get_audio_cache_key(req[1], req[2],
                                                skill_level)
                                              \in DOMAIN audio_cache
                                         THEN "cached" ELSE "absent"]]
    /\ started' = started + 1
    /\ UNCHANGED <<keyVars, serial, faults, api_key, content_cache, audio_cache, user_progress,
                   next_id, fs_now, db_now, generated, tts_log, last_record, last_args, ever_stored>>

\* a handler that goes to the glob fallback before any exact lookup
\* (a mutant)
AudioLookupFallbackFirst(p) ==
    /\ proc[p].pc = "ga_lookup1"
    /\ proc' = [proc EXCEPT ![p].pc = "ga_glob"]
    /\ UNCHANGED <<keyVars, serial, faults, api_key, content_cache, audio_cache, user_progress,
                   next_id, fs_now, db_now, started, generated, tts_log, last_record, last_args, ever_stored>>

\* get_cached_content with the capitalised skill level
AudioLookupCaps(p) ==
    /\ proc[p].pc = "ga_lookup1"
    /\ \E io_ok \in BOOLEAN :
         LET r == proc[p]
             k == get_cache_key(r.topic, r.dimension, r.skill_level_caps)
             cached_content == get_cached_content(content_cache, r.topic,
                                   r.dimension, r.skill_level_caps, io_ok)
         IN  /\ io_ok \/ (k \in DOMAIN content_cache /\ MayFail)
             /\ faults' = IF io_ok THEN faults ELSE faults + 1
             /\ proc' = [proc EXCEPT ![p] =
                            IF cached_content # None
                            THEN [r EXCEPT !.pc = "ga_audio",
                                           !.cached = cached_content,
                                           !.via = "caps"]
                            ELSE [r EXCEPT !.pc = "ga_lookup2"]]
    /\ UNCHANGED <<keyVars, serial, api_key, content_cache, audio_cache, user_progress,
                   next_id, fs_now, db_now, started, generated, tts_log, last_record, last_args, ever_stored>>

\* get_cached_content with the lower-case skill level
AudioLookupLower(p) ==
    /\ proc[p].pc = "ga_lookup2"
    /\ \E io_ok \in BOOLEAN :
         LET r == proc[p]
             k == get_cache_key(r.topic, r.dimension, r.skill_level)
             cached_content == get_cached_content(content_cache, r.topic,
                                   r.dimension, r.skill_level, io_ok)
         IN  /\ io_ok \/ (k \in DOMAIN content_cache /\ MayFail)
             /\ faults' = IF io_ok THEN faults ELSE faults + 1
             /\ proc' = [proc EXCEPT ![p] =
                            IF cached_content # None
                            THEN [r EXCEPT !.pc = "ga_audio",
                                           !.cached = cached_content,
                                           !.via = "lower"]
                            ELSE [r EXCEPT !.pc = "ga_glob"]]
    /\ UNCHANGED <<keyVars, serial, api_key, content_cache, audio_cache, user_progress,
                   next_id, fs_now, db_now, started, generated, tts_log, last_record, last_args, ever_stored>>

\* the glob fallback and the check that some text was found
AudioLookupAny(p) ==
    /\ proc[p].pc = "ga_glob"
    /\ \E io_ok \in BOOLEAN :
         LET r == proc[p]
             matching == matching_files(content_cache, r.topic, r.dimension)
             cached_content ==
                 IF matching = {} THEN None
                 ELSE LET latest == latest_file(content_cache, matching)
                      IN  IF io_ok /\ content_cache[latest].data # Corrupt
                          THEN content_cache[latest].data
                          ELSE None
         IN  /\ io_ok \/ (matching # {} /\ MayFail)
             /\ faults' = IF io_ok THEN faults ELSE faults + 1
             /\ proc' = [proc EXCEPT ![p] = AfterResolve(r, cached_content)]
    /\ UNCHANGED <<keyVars, serial, api_key, content_cache, audio_cache, user_progress,
                   next_id, fs_now, db_now, started, generated, tts_log, last_record, last_args, ever_stored>>

\* get_cached_audio, then the call of record_user_progress(audio_played=True)
AudioCacheLookup(p) ==
    /\ proc[p].pc = "ga_audio"
    /\ LET r == proc[p]
           k == get_audio_cache_key(r.topic, r.dimension, r.skill_level)
       IN  proc' = [proc EXCEPT ![p] =
                      [r EXCEPT !.cached_audio = (k \in DOMAIN audio_cache),
                                !.pc = "rec_select", !.ret = "audio",
                                !.rec_skill = r.skill_level_caps,
                                !.time_spent = 0, !.audio_played = "True"]]
    /\ UNCHANGED <<keyVars, serial, faults, api_key, content_cache, audio_cache, user_progress,
                   next_id, fs_now, db_now, started, generated, tts_log, last_record, last_args, ever_stored>>

\* after the progress record: answer from the audio cache, or enter
\* generate_audio, which looks at the audio cache once more
AudioServeOrGenerate(p) ==
    /\ proc[p].pc = "ga_after"
    /\ LET r == proc[p]
           k == get_audio_cache_key(r.topic, r.dimension, r.skill_level)
       IN  proc' = [proc EXCEPT ![p] =
                      IF r.cached_audio \/ k \in DOMAIN audio_cache
                      THEN Return(r, FileResponse(audio_cache, k))
                      ELSE [r EXCEPT !.pc = "ga_tts"]]
    /\ UNCHANGED <<keyVars, serial, faults, api_key, content_cache, audio_cache, user_progress,
                   next_id, fs_now, db_now, started, generated, tts_log, last_record, last_args, ever_stored>>

\* client.audio.speech.create answers
AudioSynthesized(p) ==
    /\ proc[p].pc = "ga_tts"
    /\ api_key
    /\ LET clean_content == clean_text_for_tts(proc[p].cached.content)
       IN  /\ proc' = [proc EXCEPT ![p].pc = "ga_open",
                                   ![p].tts = clean_content]
           /\ tts_log' = tts_log \cup {clean_content}
    /\ UNCHANGED <<keyVars, serial, faults, api_key, content_cache, audio_cache, user_progress,
                   next_id, fs_now, db_now, started, generated, last_record, last_args, ever_stored>>

\* client.audio.speech.create raises (provider error, or no usable API key)
AudioSynthesisFailed(p) ==
    /\ proc[p].pc = "ga_tts"
    /\ MayFail \/ ~api_key
    /\ faults' = IF api_key THEN faults + 1 ELSE faults
    /\ LET clean_content == clean_text_for_tts(proc[p].cached.content)
       IN  /\ proc' = [proc EXCEPT ![p] =
                          Return([proc[p] EXCEPT !.tts = clean_content],
                                 AudioGenerationFailed)]
           /\ tts_log' = tts_log \cup {clean_content}
    /\ UNCHANGED <<keyVars, serial, api_key, content_cache, audio_cache, user_progress,
                   next_id, fs_now, db_now, started, generated, last_record, last_args, ever_stored>>

\* open(audio_file, 'wb'): the file exists from here on, empty
AudioOpen(p) ==
    /\ proc[p].pc = "ga_open"
    /\ LET r == proc[p]
           k == get_audio_cache_key(r.topic, r.dimension, r.skill_level)
       IN  audio_cache' = Put(audio_cache, k,
                              [src |-> r.tts, complete |-> FALSE])
    /\ proc' = [proc EXCEPT ![p].pc = "ga_write"]
    /\ UNCHANGED <<keyVars, serial, faults, api_key, content_cache, user_progress, next_id, fs_now, db_now,
                   started, generated, tts_log, last_record, last_args, ever_stored>>

\* the chunks of the response are written and the file is closed
AudioWrite(p) ==
    /\ proc[p].pc = "ga_write"
    /\ LET r == proc[p]
           k == get_audio_cache_key(r.topic, r.dimension, r.skill_level)
       IN  /\ audio_cache' = Put(audio_cache, k,
                                 [src |-> r.tts, complete |-> TRUE])
           /\ proc' = [proc EXCEPT ![p] =
                          Return(r, FileResponse(audio_cache', k))]
    /\ UNCHANGED <<keyVars, serial, faults, api_key, content_cache, user_progress, next_id, fs_now, db_now,
                   started, generated, tts_log, last_record, last_args, ever_stored>>

\* open() or a chunk write raises: what was written so far stays on disk
AudioSaveFailed(p) ==
    /\ proc[p].pc \in {"ga_open", "ga_write"}
    /\ MayFail
    /\ faults' = faults + 1
    /\ proc' = [proc EXCEPT ![p] = Return(proc[p], AudioGenerationFailed)]
    /\ UNCHANGED <<keyVars, serial, api_key, content_cache, audio_cache, user_progress,
                   next_id, fs_now, db_now, started, generated, tts_log, last_record, last_args, ever_stored>>


\* ------------------------------------------------------ generate_dimensions

RECURSIVE SplitFrom(_, _, _)
\* str.split(','): the segments of s from position i on, cur being the
\* segment read so far
SplitFrom(s, i, cur) ==
    IF i > Len(s) THEN <<cur>>
    ELSE IF s[i] = "," THEN <<cur>> \o SplitFrom(s, i + 1, << >>)
    ELSE SplitFrom(s, i + 1, Append(cur, s[i]))

SplitComma(s) == SplitFrom(s, 1, << >>)

\* ["Science", "History", "Geography", "Culture", "Environment"]
FallbackDimensions ==
    << <<"S","c","i","e","n","c","e">>, <<"H","i","s","t","o","r","y">>,
       <<"G","e","o","g","r","a","p","h","y">>, <<"C","u","l","t","u","r","e">>,
       <<"E","n","v","i","r","o","n","m","e","n","t">> >>

\* what the provider may answer to the dimensions prompt: five labels, five
\* segments one of them empty, two labels, six labels
DimensionTexts ==
    { <<" ","a"," ",",","b",",","c",",","d",",","e","\n">>,
      <<"a",",",",","c",",","d",",","e">>,
      <<"a",",","b">>,
      <<"a",",","b",",","c",",","d",",","e",",","f">> }

\* the topics of the dimension requests
DimensionInputs == {ab, gun, short}

\* the parsing of generate_dimensions_for_topic without the count check
\* (a mutant)
ParseDimensionsUnchecked(message) ==
    LET dimensions_text == Strip(message)
        parts == SplitComma(dimensions_text)
    IN  [i \in 1..Len(parts) |-> Strip(parts[i])]

\* lines 539-547 of generate_dimensions_for_topic
ParseDimensions(message) ==
    LET dimensions_text == Strip(message)
        parts == SplitComma(dimensions_text)
        dimensions == [i \in 1..Len(parts) |-> Strip(parts[i])]
    IN  IF Len(dimensions) # 5 THEN FallbackDimensions ELSE dimensions

\* the answer of generate_dimensions
DimensionsBody(topic, dimensions) ==
    [topic |-> topic, dimensions |-> dimensions]

\* POST /generate-dimensions arrives: the topic is trimmed and checked
GenerateDimensions(p) ==
    /\ Dispatch(p)
    /\ \E topic_data \in DimensionInputs :
         LET topic == Strip(topic_data)
             r == [Idle EXCEPT !.op = "dimensions", !.topic = topic]
         IN  proc' = [proc EXCEPT ![p] =
                IF Len(topic) < 2
                THEN Return(r, Response(400, "Topic must be at least 2 characters long", None))
                ELSE IF ~is_topic_appropriate(topic)
                THEN Return(r, Response(400, "Please choose an educational topic appropriate for young learners", None))
                ELSE [r EXCEPT !.pc = "gd_call"]]
    /\ started' = started + 1
    /\ UNCHANGED <<keyVars, serial, faults, api_key, content_cache, audio_cache, user_progress,
                   next_id, fs_now, db_now, generated, tts_log, last_record, last_args, ever_stored>>

\* client.chat.completions.create answers the dimensions prompt
DimensionsGenerated(p) ==
    /\ proc[p].pc = "gd_call"
    /\ api_key
    /\ \E message \in DimensionTexts :
         LET r == [proc[p] EXCEPT !.gens = @ + 1,
                                  !.snap = [raised |-> FALSE,
                                            message |-> message]]
         IN  proc' = [proc EXCEPT ![p] =
                Return(r, Response(200, "",
                    DimensionsBody(r.topic, ParseDimensions(message))))]
    /\ UNCHANGED <<keyVars, serial, faults, api_key, content_cache, audio_cache, user_progress,
                   next_id, fs_now, db_now, started, generated, tts_log, last_record, last_args, ever_stored>>

\* the call raises (provider error, or no usable API key): the except block
\* of generate_dimensions_for_topic answers with the fallback list
DimensionsFallback(p) ==
    /\ proc[p].pc = "gd_call"
    /\ MayFail \/ ~api_key
    /\ faults' = IF api_key THEN faults + 1 ELSE faults
    /\ LET r == [proc[p] EXCEPT !.gens = @ + 1,
                                !.snap = [raised |-> TRUE, message |-> << >>]]
       IN  proc' = [proc EXCEPT ![p] =
              Return(r, Response(200, "",
                  DimensionsBody(r.topic, FallbackDimensions)))]
    /\ UNCHANGED <<keyVars, serial, api_key, content_cache, audio_cache, user_progress,
                   next_id, fs_now, db_now, started, generated, tts_log, last_record, last_args, ever_stored>>
\* ------------------------------------------------------------ the service

EmptyFiles == [k \in {} |-> None]

\* the text an earlier run of the service left in the cache for
\* ("ab", "d", "Beginner")
WarmText == Strip(<<"*","*","x","*","*","\n","\n","y"," ">>)

WarmCache ==
    cache_content(EmptyFiles, ab, d, Beginner, WarmText, WordCount(WarmText),
                  flesch_reading_ease(WarmText), 0, "ok")

\* the cache directories, the clocks and the handlers after start-up: the
\* cache directory is kept across runs, so it is empty or holds what an
\* earlier run wrote
ServiceStart ==
    /\ api_key \in BOOLEAN
    /\ content_cache \in {EmptyFiles, WarmCache}
    /\ generated = (IF content_cache = EmptyFiles THEN {} ELSE {WarmText})
    /\ ever_stored = DOMAIN content_cache
    /\ faults = 0
    /\ audio_cache = EmptyFiles
    /\ fs_now = 1
    /\ db_now = 1
    /\ proc = [p \in Procs |-> Idle]
    /\ started = 0
    /\ tts_log = {}

\* init_database on a new database file
EmptyTable ==
    /\ user_progress = {}
    /\ next_id = 1
    /\ last_record = EmptyFiles
    /\ last_args = EmptyFiles

\* the row an earlier run left for (user 1, "ab", "d", "Beginner"): a
\* time-tracking call of 5 seconds
WarmRow == InsertRow(1, 1, ab, d, Beginner, 5, "None", 0)

\* init_database on the database file of an earlier run (CREATE TABLE IF NOT
\* EXISTS keeps its rows)
WarmTable ==
    /\ user_progress = {WarmRow}
    /\ next_id = 2
    /\ last_record = Put(EmptyFiles, RowKey(WarmRow), 0)
    /\ last_args = Put(EmptyFiles, RowKey(WarmRow), <<5, "None">>)

\* the state after start-up on a new database
AppStart == ServiceStart /\ EmptyTable

Start ==
    /\ AppStart
    /\ ka = <<ab, d, Beginner>>
    /\ kb = ka
    /\ krel = TRUE
    /\ kedits = 0

Next ==
    \E p \in Procs :
        \/ GenerateContent(p)
        \/ ContentLookup(p)
        \/ ContentGenerated(p)
        \/ ContentGenerationFailed(p)
        \/ ContentCache(p)
        \/ TrackReadingTime(p)
        \/ RecordSelect(p)
        \/ RecordWrite(p)
        \/ RecordFailed(p)
        \/ GenerateContentAudio(p)
        \/ AudioLookupCaps(p)
        \/ AudioLookupLower(p)
        \/ AudioLookupAny(p)
        \/ AudioCacheLookup(p)
        \/ AudioServeOrGenerate(p)
        \/ AudioSynthesized(p)
        \/ AudioSynthesisFailed(p)
        \/ AudioOpen(p)
        \/ AudioWrite(p)
        \/ AudioSaveFailed(p)
        \/ GenerateDimensions(p)
        \/ DimensionsGenerated(p)
        \/ DimensionsFallback(p)

Init == Start /\ serial = FALSE

\* the service with its handlers interleaved
Spec == Init /\ [][Next]_vars

SeqInit == Start /\ serial = TRUE

\* the service when requests arrive one at a time
SeqSpec == SeqInit /\ [][Next]_vars

RestartInit ==
    /\ ServiceStart /\ WarmTable
    /\ ka = <<ab, d, Beginner>>
    /\ kb = ka
    /\ krel = TRUE
    /\ kedits = 0
    /\ serial = FALSE

\* the service restarted on the database of an earlier run, its handlers
\* interleaved
RestartSpec == RestartInit /\ [][Next]_vars

\* ------------------------------------------------------ key-codec harness

\* the triples <<topic, dimension, skill_level>> the harness starts from
KeyTriples ==
    { <<ab, <<"c">>, Beginner>>, <<<<"a","-","b">>, <<"c">>, Beginner>>,
      <<<<"a"," ","b">>, <<"c">>, Expert>> }

\* other topics and dimensions a request may carry
KeyStrings ==
    { <<"a">>, <<"b","-","c">>, <<"a","_","b">>,
      <<"g","u","n">>, <<"g"," ","u","n">>, <<"s","w","a","r","m">> }

\* s with the case of its i-th character switched
SwapCase(s, i) ==
    [s EXCEPT ![i] = IF LowerChar(s[i]) # s[i] THEN LowerChar(s[i])
                     ELSE UpperChar(s[i])]

KeyInit ==
    /\ AppStart
    /\ serial = TRUE
    /\ api_key = TRUE
    /\ content_cache = EmptyFiles
    /\ ka \in KeyTriples
    /\ kb = ka
    /\ krel = TRUE
    /\ kedits = 0

\* the second triple gets whitespace in front of one of its parts
KeyPadLeft ==
    /\ kedits < MaxEdits
    /\ \E i \in 1..3, c \in {" ", "\t"} :
         kb' = [kb EXCEPT ![i] = <<c>> \o @]
    /\ kedits' = kedits + 1
    /\ UNCHANGED <<appVars, ka, krel>>

\* the second triple gets whitespace behind one of its parts
KeyPadRight ==
    /\ kedits < MaxEdits
    /\ \E i \in 1..3, c \in {" ", "\n"} :
         kb' = [kb EXCEPT ![i] = @ \o <<c>>]
    /\ kedits' = kedits + 1
    /\ UNCHANGED <<appVars, ka, krel>>

\* one letter of the second triple changes case
KeyRecase ==
    /\ kedits < MaxEdits
    /\ \E i \in 1..3 : \E j \in 1..Len(kb[i]) :
         /\ SwapCase(kb[i], j) # kb[i]
         /\ kb' = [kb EXCEPT ![i] = SwapCase(@, j)]
    /\ kedits' = kedits + 1
    /\ UNCHANGED <<appVars, ka, krel>>

\* the topic or the dimension of the second triple becomes another string:
\* from here on the two triples are different requests
KeyRetype ==
    /\ kedits < MaxEdits
    /\ \E i \in 1..2, s \in KeyStrings : kb' = [kb EXCEPT ![i] = s]
    /\ krel' = FALSE
    /\ kedits' = kedits + 1
    /\ UNCHANGED <<appVars, ka>>

KeyNext == KeyPadLeft \/ KeyPadRight \/ KeyRecase \/ KeyRetype

\* get_cache_key applied to pairs of request triples
KeySpec == KeyInit /\ [][KeyNext]_vars

\* ---------------------------------------------------------------- claims

\* the cache key of the request a handler slot holds
KeyOf(r) == get_cache_key(r.topic, r.dimension, r.skill_level)

\* the response carries the stored content, word count and readability score
ReturnsStored(resp, artifact) ==
    /\ resp.status = 200
    /\ resp.body.content = artifact.content
    /\ resp.body.word_count = artifact.word_count
    /\ resp.body.readability_score = artifact.readability_score

\* C1 (as amended): a content request whose lookup reads the stored artifact
\* of its key makes no call to the text generation and answers with exactly
\* the stored content, word count and readability score.
C1_HitServesStored ==
    \A p \in Procs :
        proc[p].hit =>
            /\ proc[p].gens = 0
            /\ ~proc[p].wrote
            /\ ReturnsStored(proc[p].resp, proc[p].snap)

\* C1 witness: one request generated and wrote the artifact, a later request
\* for the same key was answered from it.
C1_Witness ==
    \E p, q \in Procs :
        /\ p # q
        /\ proc[q].wrote /\ proc[q].pc = "done"
        /\ proc[p].hit /\ proc[p].pc = "done"
        /\ proc[p].start = "artifact"
        /\ KeyOf(proc[p]) = KeyOf(proc[q])
        /\ proc[p].resp.body.content = proc[q].resp.body.content

\* C1 as stated: once an artifact is stored under K, every later content
\* request for K makes no generation call and returns the stored content.
C1_Original ==
    \A p \in Procs :
        (proc[p].op = "content" /\ proc[p].start = "artifact") =>
            /\ proc[p].gens = 0
            /\ (proc[p].pc = "done" /\ proc[p].resp.status = 200) => proc[p].hit

\* C2 as stated: an artifact stored under a key is never changed or replaced
\* by a later step.
C2_ArtifactImmutable ==
    [][\A k \in DOMAIN content_cache :
          content_cache[k].data # Corrupt =>
              content_cache'[k].data = content_cache[k].data]_vars

\* C3 as stated: two overlapping content requests for one uncached key make
\* one generation call and one write between them, and both get the same
\* artifact.
C3_SingleFlight ==
    \A p, q \in Procs :
        ( /\ p # q
          /\ proc[p].op = "content" /\ proc[q].op = "content"
          /\ KeyOf(proc[p]) = KeyOf(proc[q])
          /\ proc[p].start = "absent" /\ proc[q].start = "absent"
          /\ proc[p].pc = "done" /\ proc[q].pc = "done"
          /\ proc[p].resp.status = 200 /\ proc[q].resp.status = 200 ) =>
            /\ proc[p].gens + proc[q].gens = 1
            /\ ~(proc[p].wrote /\ proc[q].wrote)
            /\ proc[p].resp.body.content = proc[q].resp.body.content

\* the progress row of a finished request, as a set of at most one row
RowsOf(r) ==
    {row \in user_progress :
        RowKey(row) = <<r.user, r.topic, r.dimension, r.skill_level>>}

\* C4: with Record calls made one after another, time_spent of a progress row
\* never decreases from one state to the next, and no row goes away.
C4_TimeSpentMonotonic ==
    [][\A row \in user_progress :
          \E next \in user_progress' :
              /\ next.id = row.id
              /\ RowKey(next) = RowKey(row)
              /\ next.time_spent >= row.time_spent]_vars

\* C4 witness: a row that was written twice holds 10 after a time-tracking
\* call that reported 5.
C4_Witness ==
    \E p \in Procs :
        /\ proc[p].op = "track" /\ proc[p].pc = "done"
        /\ proc[p].time_spent = 5
        /\ \E row \in RowsOf(proc[p]) :
               row.time_spent = 10 /\ row.completed_at = 2

\* C5: with Record calls made one after another, audio_played of a progress
\* row never goes from true to false.
C5_AudioPlayedSticky ==
    [][\A row \in user_progress :
          row.audio_played =>
              \E next \in user_progress' :
                  next.id = row.id /\ next.audio_played]_vars

\* C5 witness: after an audio play, a call that passed no flag (time
\* tracking) or false (content view) was recorded and the flag is still true.
C5_Witness ==
    \E p \in Procs :
        /\ proc[p].op \in {"track", "content"} /\ proc[p].pc = "done"
        /\ proc[p].audio_played \in {"None", "False"}
        /\ \E row \in RowsOf(proc[p]) :
               row.audio_played /\ row.completed_at = 2

\* C6 as stated: an audio request for which no text resolved ends with the
\* 404 raised at lines 844-848, not with the 500 of an internal failure.
C6_ContentNotFound ==
    \A p \in Procs :
        ( /\ proc[p].op = "audio" /\ proc[p].pc = "done"
          /\ proc[p].cached = None ) =>
            /\ proc[p].resp.status = 404
            /\ proc[p].resp.status # AudioGenerationFailed.status

\* C7: every synthesis call was made by an audio request that had resolved a
\* text artifact, and its input is the cleaned body of that artifact, which
\* the text generation produced earlier.
C7_SynthesisFromResolvedText ==
    /\ \A t \in tts_log : \E c \in generated : t = clean_text_for_tts(c)
    /\ \A p \in Procs :
         (proc[p].pc \in {"ga_audio", "ga_after", "ga_tts", "ga_open", "ga_write"}
             \/ proc[p].tts # << >>) =>
            /\ proc[p].cached # None
            /\ proc[p].cached.content \in generated
            /\ proc[p].tts \in {<< >>, clean_text_for_tts(proc[p].cached.content)}

\* C7 witness: a synthesis call was made and its audio returned.
C7_Witness ==
    \E p \in Procs :
        /\ proc[p].op = "audio" /\ proc[p].pc = "done"
        /\ proc[p].tts # << >> /\ proc[p].tts \in tts_log
        /\ proc[p].resp.status = 200

\* the normalized (topic, dimension, skill level) triple of a request
NormalizedTriple(t) ==
    <<Strip(Lower(t[1])), Strip(Lower(t[2])), Strip(Lower(t[3]))>>

\* C8: a triple and any variant of it in letter case and in leading or
\* trailing whitespace get the same cache key.
C8_KeyInvariantUnderVariants ==
    krel => get_cache_key(ka[1], ka[2], ka[3]) = get_cache_key(kb[1], kb[2], kb[3])

\* C8 witness: the variant differs in the case of the skill level and in the
\* whitespace around the topic.
C8_Witness ==
    /\ krel
    /\ Len(kb[1]) > Len(ka[1])
    /\ kb[3] # ka[3] /\ Len(kb[3]) = Len(ka[3])

\* C9 as stated: two requests whose normalized triples differ get different
\* cache keys (the hash is modelled without collisions).
C9_KeyInjective ==
    NormalizedTriple(ka) # NormalizedTriple(kb) =>
        get_cache_key(ka[1], ka[2], ka[3]) # get_cache_key(kb[1], kb[2], kb[3])

\* C10: completed_at of every progress row is the time of the latest
\* committed Record for the row's key.
C10_CompletedAtLatest ==
    \A row \in user_progress :
        /\ RowKey(row) \in DOMAIN last_record
        /\ row.completed_at = last_record[RowKey(row)]

\* C10 witness: the only row was written a second time by a call that left
\* its time and its flag as they were, and carries the time of that call.
C10_Witness ==
    /\ Cardinality(user_progress) = 1
    /\ \E p \in Procs :
        /\ proc[p].op = "track" /\ proc[p].pc = "done"
        /\ proc[p].time_spent = 5
        /\ \E row \in RowsOf(proc[p]) :
               /\ row.time_spent = 5 /\ ~row.audio_played
               /\ row.completed_at = 2 /\ db_now = 3

\* C11: a request whose Record hit a storage failure ends as it ends without
\* the failure: a content request answers 200 with the stored or the newly
\* generated content, an audio request answers 200 with the audio file, or
\* fails only after its own synthesis call was made.
C11_RecordFailureSwallowed ==
    \A p \in Procs :
        (proc[p].rec = "failed" /\ proc[p].pc = "done") =>
            /\ proc[p].op = "content" =>
                 /\ proc[p].resp.status = 200
                 /\ proc[p].hit => ReturnsStored(proc[p].resp, proc[p].snap)
                 /\ ~proc[p].hit =>
                      /\ proc[p].gens = 1
                      /\ proc[p].resp.body.content \in generated
            /\ proc[p].op = "audio" =>
                 \/ proc[p].resp.status = 200
                 \/ proc[p].tts # << >>
            /\ proc[p].op = "track" => proc[p].resp.status = 200

\* C11 witness: the Record of an audio request failed, the audio was
\* synthesized and returned.
C11_Witness ==
    \E p \in Procs :
        /\ proc[p].op = "audio" /\ proc[p].pc = "done"
        /\ proc[p].rec = "failed"
        /\ proc[p].tts # << >>
        /\ proc[p].resp.status = 200

\* the progress rows under the key an audio request records
AudioRowsOf(r, rows) ==
    {row \in rows :
        RowKey(row) = <<r.user, r.topic, r.dimension, r.skill_level_caps>>}

\* C12 (as amended): an audio request whose text resolved calls Record before
\* it answers, and whenever that Record commits its UPDATE or INSERT, the row
\* of (user, topic, dimension, skill level) has audio_played = true.
C12_AudioPlayRecorded ==
    [][\A p \in Procs :
          /\ ( /\ proc[p].op = "audio" /\ proc[p].pc = "rec_write"
               /\ proc'[p].pc # "rec_write"
               /\ proc'[p].rec = "committed" ) =>
                 \E row \in AudioRowsOf(proc[p], user_progress') :
                     row.audio_played
          /\ ( /\ proc'[p].op = "audio" /\ proc'[p].pc = "done"
               /\ proc'[p].cached # None ) =>
                 proc'[p].rec # "none"]_vars

\* C12 witness: an audio request answered from the audio cache committed its
\* Record and the row has the flag.
C12_Witness ==
    \E p \in Procs :
        /\ proc[p].op = "audio" /\ proc[p].pc = "done"
        /\ proc[p].rec = "committed"
        /\ proc[p].tts = << >> /\ proc[p].resp.status = 200
        /\ \E row \in AudioRowsOf(proc[p], user_progress) : row.audio_played

\* C12 as stated: every audio request whose text resolved has recorded
\* audio_played = true by the time it has answered.
C12_Original ==
    \A p \in Procs :
        ( /\ proc[p].op = "audio" /\ proc[p].pc = "done"
          /\ proc[p].cached # None ) =>
            \E row \in AudioRowsOf(proc[p], user_progress) : row.audio_played

\* the answer is the validation error that asks for an educational topic
SafetyRejection(resp) ==
    /\ resp.status = 400
    /\ resp.detail = "Please choose an educational topic appropriate for young learners"

\* the request made no cache lookup, no generation call, no cache write and
\* no progress record
NoSideEffects(r) ==
    ~r.looked /\ r.gens = 0 /\ ~r.wrote /\ r.rec = "none" /\ ~r.hit

InvalidRequest(r) ==
    r.skill_level \notin SkillLevels \/ Len(Strip(r.topic)) < 2

HoldsKeyword(topic) ==
    \E k \in 1..Len(inappropriate_keywords) :
        LET keyword == inappropriate_keywords[k]
        IN  \E i \in 1..Len(topic) :
                /\ i + Len(keyword) - 1 <= Len(topic)
                /\ \A j \in 1..Len(keyword) :
                       LowerChar(topic[i + j - 1]) = keyword[j]

\* the topic with all its whitespace taken out
Squeeze(topic) == SelectSeq(topic, LAMBDA c : ~IsSpace(c))

\* C15 (as amended): is_topic_appropriate is false for every topic that holds
\* a blocked keyword as a substring, whatever the letter case and the
\* whitespace around the topic, and true for every other topic; whitespace
\* inside the topic counts.
C15_BlocklistSubstring ==
    is_topic_appropriate(kb[1]) <=> ~HoldsKeyword(kb[1])

\* C15 witness: a topic that holds "gun" in another case and with padding is
\* refused.
C15_Witness ==
    /\ HoldsKeyword(kb[1])
    /\ Lower(kb[1]) # kb[1]
    /\ Strip(kb[1]) # kb[1]
    /\ ~is_topic_appropriate(kb[1])

\* C15 as stated: the test is also blind to whitespace, so a topic that
\* holds a keyword once its whitespace is taken out is refused.
C15_Original ==
    is_topic_appropriate(kb[1]) <=> ~HoldsKeyword(Squeeze(kb[1]))

\* a dimension request that got its answer from generate_dimensions_for_topic
DimensionsAnswered(r) ==
    r.op = "dimensions" /\ r.pc = "done" /\ r.resp.status = 200

\* C16 as stated: whatever the generation capability did, the dimension
\* request returns exactly 5 labels and none of them is empty.
C16_FiveNonEmptyLabels ==
    \A p \in Procs :
        DimensionsAnswered(proc[p]) =>
            LET dimensions == proc[p].resp.body.dimensions
            IN  /\ Len(dimensions) = 5
                /\ \A i \in 1..Len(dimensions) : dimensions[i] # << >>

\* the number of comma-separated segments of the provider's answer
SegmentCount(message) == Len(SplitComma(Strip(message)))

\* C17: a dimension request that passed validation answers 200 whatever the
\* generation call did; when the call raised or its answer does not split in
\* exactly 5 segments, the labels are exactly the fixed list.
C17_DimensionFallback ==
    \A p \in Procs :
        (proc[p].op = "dimensions" /\ proc[p].snap # None) =>
            /\ proc[p].pc = "done"
            /\ proc[p].resp.status = 200
            /\ proc[p].resp.body.topic = proc[p].topic
            /\ Len(proc[p].resp.body.dimensions) = 5
            /\ (proc[p].snap.raised \/ SegmentCount(proc[p].snap.message) # 5) =>
                 proc[p].resp.body.dimensions = FallbackDimensions

\* C17 witness: the provider answered with six labels and the request
\* returned the fixed list.
C17_Witness ==
    \E p \in Procs :
        /\ proc[p].op = "dimensions" /\ proc[p].pc = "done"
        /\ proc[p].snap # None
        /\ ~proc[p].snap.raised /\ SegmentCount(proc[p].snap.message) = 6
        /\ proc[p].resp.body.dimensions = FallbackDimensions

\* C18: the step at which the generation call of a content request fails
\* ends the request with the 500 "Content generation failed" and no body,
\* writes nothing to the text cache and leaves every progress row as it was;
\* the request has made no cache write and no Record call.
C18_GenerationFailed ==
    [][\A p \in Procs :
          (proc[p].pc = "gc_generate" /\ proc'[p].pc = "done") =>
              /\ proc'[p].resp.status = 500
              /\ proc'[p].resp.detail = "Content generation failed"
              /\ proc'[p].resp.body = None
              /\ content_cache' = content_cache
              /\ user_progress' = user_progress
              /\ ~proc'[p].wrote /\ proc'[p].rec = "none"]_vars

\* C18 witness: a content request on an empty cache made its generation call
\* and ended with the error.
C18_Witness ==
    \E p \in Procs :
        /\ proc[p].op = "content" /\ proc[p].pc = "done"
        /\ proc[p].start = "absent" /\ proc[p].looked
        /\ proc[p].gens = 1 /\ proc[p].resp.status = 500
        /\ KeyOf(proc[p]) \notin DOMAIN content_cache
        /\ user_progress = {}

\* C19: the cache never fails a content request. The lookup step ends in a
\* hit or, also when the file cannot be read or does not parse, goes on to
\* the generation call; the step that writes the cache ends with a 200 that
\* carries the generated content, whether the write succeeded or not.
C19_CacheNeverFailsRequest ==
    [][\A p \in Procs :
          /\ proc[p].pc = "gc_lookup" =>
               /\ proc'[p].pc \in {"gc_lookup", "gc_generate", "rec_select", "done"}
               /\ proc'[p].pc \in {"rec_select", "done"} =>
                    proc'[p].hit /\ proc'[p].resp.status = 200
               /\ (proc'[p].pc # "gc_lookup" /\ ~proc'[p].hit) =>
                    proc'[p].pc = "gc_generate"
          /\ (proc[p].pc = "gc_cache" /\ proc'[p].pc # "gc_cache") =>
               /\ proc'[p].resp.status = 200
               /\ proc'[p].resp.body.content = proc[p].content
               /\ proc[p].content \in generated
               /\ proc'[p].pc \in {"rec_select", "done"}]_vars

\* C19 witness: a request found an artifact under its key when it arrived,
\* could not read it, generated the content and answered 200.
C19_Witness ==
    \E p \in Procs :
        /\ proc[p].op = "content" /\ proc[p].pc = "done"
        /\ proc[p].start = "artifact" /\ ~proc[p].hit
        /\ proc[p].gens = 1 /\ proc[p].resp.status = 200
        /\ faults = 1

\* C20 as stated: a content, dimension or audio request ends with an error
\* response only as a validation error, as a failed text generation, or as
\* an audio request without source text; every other failure still answers
\* 200.
C20_OnlyThreeErrors ==
    \A p \in Procs :
        ( /\ proc[p].op \in {"content", "dimensions", "audio"}
          /\ proc[p].pc = "done"
          /\ proc[p].resp.status # 200 ) =>
            \/ proc[p].resp.status = 400
            \/ proc[p].op = "content" /\ proc[p].looked /\ proc[p].gens = 1
                                      /\ ~proc[p].wrote
            \/ proc[p].op = "audio" /\ proc[p].cached = None


\* the readable text artifacts stored for a topic and a dimension, under any
\* skill level
StoredFor(files, topic, dimension) ==
    {k \in DOMAIN files :
        /\ files[k].data # Corrupt
        /\ Strip(Lower(files[k].data.topic)) = Strip(Lower(topic))
        /\ Strip(Lower(files[k].data.dimension)) = Strip(Lower(dimension))}

\* C21 as stated: when the audio path comes to its fallback and text
\* artifacts are stored for the requested topic and dimension, the fallback
\* (its file read not failing) resolves to the one written most recently.
C21_FallbackLatest ==
    [][\A p \in Procs :
          LET r == proc[p]
              stored == StoredFor(content_cache, r.topic, r.dimension)
          IN  ( /\ r.pc = "ga_glob" /\ proc'[p].pc # "ga_glob"
                /\ faults' = faults
                /\ stored # {} ) =>
                  /\ proc'[p].via = "any"
                  /\ proc'[p].cached =
                         content_cache[latest_file(content_cache, stored)].data]_vars

\* the audio cache key of the request a handler slot holds
AudioKeyOf(r) == get_audio_cache_key(r.topic, r.dimension, r.skill_level)

\* C22 as stated: two overlapping audio requests for one key whose audio is
\* not cached make one synthesis call and one audio write between them, and
\* both get the same audio artifact.
C22_AudioSingleFlight ==
    \A p, q \in Procs :
        ( /\ p # q
          /\ proc[p].op = "audio" /\ proc[q].op = "audio"
          /\ AudioKeyOf(proc[p]) = AudioKeyOf(proc[q])
          /\ proc[p].start = "absent" /\ proc[q].start = "absent"
          /\ proc[p].pc = "done" /\ proc[q].pc = "done"
          /\ proc[p].resp.status = 200 /\ proc[q].resp.status = 200 ) =>
            /\ ~(proc[p].tts # << >> /\ proc[q].tts # << >>)
            /\ proc[p].resp.body = proc[q].resp.body

\* C23 as stated: when a content request that missed the cache, generated its
\* text and wrote it to the cache returns, the cache holds under its key an
\* artifact whose content is the returned content and whose word_count is the
\* number of whitespace-delimited tokens of that content.
C23_WriteThrough ==
    [][\A p \in Procs :
          ( /\ proc[p].pc # "done" /\ proc'[p].pc = "done"
            /\ proc'[p].op = "content"
            /\ ~proc'[p].hit /\ proc'[p].gens = 1 /\ proc'[p].wrote
            /\ proc'[p].resp.status = 200 ) =>
              LET k == KeyOf(proc'[p])
              IN  /\ k \in DOMAIN content_cache'
                  /\ content_cache'[k].data # Corrupt
                  /\ content_cache'[k].data.content =
                         proc'[p].resp.body.content
                  /\ content_cache'[k].data.word_count =
                         WordCount(content_cache'[k].data.content)]_vars

\* a progress row without its completed_at
RowFields(row) ==
    [id |-> row.id, key |-> RowKey(row), time_spent |-> row.time_spent,
     audio_played |-> row.audio_played]

\* C24: a Record call that commits with the arguments of the last committed
\* Record of its key leaves time_spent and audio_played of every row as they
\* were and adds no row.
C24_RecordIdempotent ==
    [][\A p \in Procs :
          LET r == proc[p]
              key == <<r.user, r.topic, r.dimension, r.rec_skill>>
          IN  ( /\ r.pc = "rec_write" /\ proc'[p].pc # "rec_write"
                /\ proc'[p].rec = "committed"
                /\ key \in DOMAIN last_args
                /\ last_args[key] = <<r.time_spent, r.audio_played>> ) =>
                  {RowFields(row) : row \in user_progress'} =
                      {RowFields(row) : row \in user_progress}]_vars

\* C24 witness: a time-tracking call of 5 seconds was repeated; the one row
\* holds 5 seconds and was written by both calls.
C24_Witness ==
    \E p \in Procs :
        /\ proc[p].op = "track" /\ proc[p].pc = "done"
        /\ proc[p].same /\ proc[p].time_spent = 5
        /\ Cardinality(user_progress) = 1
        /\ \E row \in RowsOf(proc[p]) :
               row.time_spent = 5 /\ row.completed_at = 2

\* C25: the progress table never holds two rows with the same
\* (user_id, topic, dimension, skill_level).
C25_OneRowPerKey ==
    \A r1, r2 \in user_progress : RowKey(r1) = RowKey(r2) => r1 = r2

\* C25 witness: two overlapping Records of one key both found no row; one
\* inserted it, the INSERT of the other was rejected, and one row is there.
C25_Witness ==
    \E p, q \in Procs :
        /\ p # q
        /\ proc[p].rec = "conflict" /\ proc[q].rec = "committed"
        /\ proc[p].pc = "done" /\ proc[q].pc = "done"
        /\ Cardinality(user_progress) = 1
        /\ \A row \in user_progress :
               /\ RowKey(row) = <<proc[p].user, proc[p].topic,
                                  proc[p].dimension, proc[p].skill_level>>
               /\ RowKey(row) = <<proc[q].user, proc[q].topic,
                                  proc[q].dimension, proc[q].skill_level>>

\* the key of the exact lookups of an audio request
ExactKeyOf(r) == get_cache_key(r.topic, r.dimension, r.skill_level_caps)

\* C26: an exact lookup of the audio path that finds a readable artifact
\* under the key of the request resolves to that artifact, whatever else is
\* stored for the topic and dimension; the lower-case lookup comes only after
\* the capitalised one, the fallback only after both; and what is sent to the
\* synthesis is the resolved text.
C26_ExactBeforeFallback ==
    [][\A p \in Procs :
          LET r == proc[p]
              k == ExactKeyOf(r)
          IN  /\ ( /\ r.pc \in {"ga_lookup1", "ga_lookup2"}
                   /\ proc'[p].pc # r.pc
                   /\ faults' = faults
                   /\ k \in DOMAIN content_cache
                   /\ content_cache[k].data # Corrupt ) =>
                     /\ proc'[p].pc = "ga_audio"
                     /\ proc'[p].cached = content_cache[k].data
              /\ (proc'[p].pc = "ga_lookup2" /\ r.pc # "ga_lookup2") =>
                     r.pc = "ga_lookup1"
              /\ (proc'[p].pc = "ga_glob" /\ r.pc # "ga_glob") =>
                     r.pc = "ga_lookup2"
              /\ (r.pc = "ga_tts" /\ proc'[p].tts # << >>) =>
                     proc'[p].tts = clean_text_for_tts(r.cached.content)]_vars

\* C26 witness: an audio request resolved by its first exact lookup and was
\* narrated from that artifact while a later written artifact of the same
\* topic and dimension, under another skill level, was in the cache.
C26_Witness ==
    \E p \in Procs :
        LET r == proc[p]
            k == ExactKeyOf(r)
        IN  /\ r.op = "audio" /\ r.pc = "done" /\ r.via = "caps"
            /\ k \in DOMAIN content_cache
            /\ r.cached = content_cache[k].data
            /\ r.tts = clean_text_for_tts(content_cache[k].data.content)
            /\ r.resp.status = 200
            /\ \E k2 \in StoredFor(content_cache, r.topic, r.dimension) :
                   /\ k2 # k
                   /\ content_cache[k2].mtime > content_cache[k].mtime

\* C27 as stated: an audio artifact stored under a cache key was synthesized
\* from the text artifact stored under the same key.
C27_AudioFromOwnText ==
    \A k \in DOMAIN audio_cache :
        /\ k \in DOMAIN content_cache
        /\ content_cache[k].data # Corrupt
        /\ audio_cache[k].src =
               clean_text_for_tts(content_cache[k].data.content)

\* C28 as stated: a synthesis that fails leaves no audio artifact for its
\* key: every file of the audio cache is complete, or a handler is still
\* writing it.
C28_NoPartialAudio ==
    \A k \in DOMAIN audio_cache :
        ~audio_cache[k].complete =>
            \E p \in Procs :
                proc[p].pc = "ga_write" /\ AudioKeyOf(proc[p]) = k

\* C29 as stated: an audio request that ends in failure has changed no
\* progress row, and a row has audio_played only when an audio request of
\* its key returned audio.
C29_FailedAudioRecordsNothing ==
    \A p \in Procs :
        (proc[p].op = "audio" /\ proc[p].pc = "done"
            /\ proc[p].resp.status # 200) =>
            /\ proc[p].rec # "committed"
            /\ \A row \in AudioRowsOf(proc[p], user_progress) :
                   row.audio_played =>
                       \E q \in Procs :
                           /\ proc[q].op = "audio" /\ proc[q].pc = "done"
                           /\ proc[q].resp.status = 200
                           /\ AudioRowsOf(proc[q], user_progress) =
                                  AudioRowsOf(proc[p], user_progress)

\* the row key a request hands to record_user_progress
RecordKeyOf(r) ==
    <<r.user, r.topic, r.dimension,
      IF r.op = "audio" THEN r.skill_level_caps ELSE r.skill_level>>

\* C30 as stated: when two Record calls for one key have overlapped and no
\* storage failure was injected into either, the row holds at least the time
\* of both calls, and audio_played if either call passed true.
C30_NoLostContribution ==
    \A p, q \in Procs :
        ( /\ p # q
          /\ proc[p].pc = "done" /\ proc[q].pc = "done"
          /\ proc[p].rec \in {"committed", "conflict"}
          /\ proc[q].rec \in {"committed", "conflict"}
          /\ RecordKeyOf(proc[p]) = RecordKeyOf(proc[q]) ) =>
            \E row \in user_progress :
                /\ RowKey(row) = RecordKeyOf(proc[p])
                /\ row.time_spent >= Max(proc[p].time_spent, proc[q].time_spent)
                /\ ( \/ proc[p].audio_played = "True"
                     \/ proc[q].audio_played = "True" ) => row.audio_played

\* C31 as stated: a content view whose Record finds the row of its key and
\* commits leaves time_spent and audio_played of that row as they are and
\* changes no other row.
C31_ViewLeavesRow ==
    [][\A p \in Procs :
          ( /\ proc[p].op = "content" /\ proc[p].pc = "rec_write"
            /\ proc'[p].pc # "rec_write"
            /\ proc'[p].rec = "committed"
            /\ proc[p].existing # None ) =>
              {RowFields(row) : row \in user_progress'} =
                  {RowFields(row) : row \in user_progress}]_vars

\* C32 as stated: an audio request that arrives after a content request has
\* stored the artifact of its topic, dimension and the skill level of its
\* grade resolves source text and does not end in ContentNotFound.
C32_AudioFindsStoredText ==
    \A p \in Procs :
        ( /\ proc[p].op = "audio" /\ proc[p].pc = "done"
          /\ proc[p].had_text ) =>
            /\ proc[p].cached # None
            /\ proc[p].via # "none"
====
